---- MODULE Spec2Model ----
(***************************************************************************)
(* Model of run.py: GoogleNewsScraper.make_request (bounded retries),      *)
(* GoogleNewsScraper.scrape_articles (paginated, de-duplicated, capped     *)
(* harvest), rewrite_with_gemini, save_to_json, generate_static_site and   *)
(* main (the pipeline over the configured keywords).                       *)
(*                                                                         *)
(* The network, the markup of a result page, the rewrite service and the   *)
(* file system are inputs: every action draws them with \E from the small  *)
(* sets defined below.  A result page is read one container at a time, in  *)
(* order, exactly once; the model draws each container when the for loop   *)
(* reaches it and keeps the number of containers still to be visited.      *)
(* The field scraped_at (a wall-clock stamp) is not modelled.              *)
(***************************************************************************)
EXTENDS Integers, Sequences, FiniteSets, TLC

\* ------------------------------------------------------------------ bounds
NumUrls == 2          \* distinct result URLs the search surface can serve
MaxContainers == 2    \* containers on one result page
MaxPages == 3         \* result pages one harvest may fetch in the model
MaxArticles == 2      \* largest configured max_articles_per_keyword
MaxKeywords == 2      \* longest configured keyword list

\* ------------------------------------------------------- program constants
max_retries == 3      \* make_request(url, max_retries=3)
PageSize == 10        \* start = page * 10
BackoffBase == 2      \* time.sleep(2 ** attempt)
JitterLow == 1        \* random.uniform(1, 3)
JitterHigh == 3

\* Python's None, kept apart from every string the inputs can hold.
None == "<None>"

UrlNames == <<"u1", "u2", "u3", "u4">>
Urls == {UrlNames[i] : i \in 1..NumUrls}

KeywordNames == <<"k1", "k2", "k3", "k4">>
KeywordLists == {SubSeq(KeywordNames, 1, n) : n \in 0..MaxKeywords}

\* One <div class="SoaBEf">.  a: whether container.find('a') finds a link;
\* href: link_element.get('href') (None when the attribute is missing);
\* heading / n0jPhd / OSrXXb: the text of the element found by the title,
\* snippet and date locator, None when the locator finds no element.
Containers ==
    {[a |-> FALSE, href |-> None, heading |-> None, n0jPhd |-> s, OSrXXb |-> d] :
        s \in {None, "snippet"}, d \in {None, "", "1 day ago"}}
    \cup
    [a : {TRUE}, href : {None, ""} \cup Urls, heading : {None, "title"},
     n0jPhd : {None, "snippet"}, OSrXXb : {None, "", "1 day ago"}]

\* The containers the pipeline specification draws from: every kind of link,
\* with the title, snippet and date elements all there or all missing.
PlainContainers ==
    {c \in Containers :
        /\ c.OSrXXb # ""
        /\ (c.n0jPhd = None) = (c.OSrXXb = None)
        /\ c.a => (c.heading = None) = (c.n0jPhd = None)}

\* Outcomes of one requests.get: a status code or a RequestException.
Outcomes == {"200", "429", "500", "RequestException"}

\* The configurations main can be started with.
Configs ==
    {[file |-> f, keywords |-> <<>>, max_articles_per_keyword |-> 0, api_key |-> FALSE] :
        f \in {"missing", "invalid"}}
    \cup
    [file : {"ok"}, keywords : KeywordLists,
     max_articles_per_keyword : (-1)..MaxArticles, api_key : BOOLEAN]

\* The configurations of a run that harvests one keyword.
HarvestConfigs ==
    {c \in Configs : c.file = "ok" /\ c.keywords = <<"k1">> /\ c.api_key}

\* Content of an output file left by an earlier run.
Stale == [state |-> "stale", articles |-> <<>>]

VARIABLES
    config,              \* config.json and the environment, fixed for the run
    mpc,                 \* position of main
    exit_code,           \* None while running, else the exit status "0" or "1"
    ki,                  \* index of the keyword the for loop of main is at
    all_articles_raw,    \* main: all_articles_raw
    ai,                  \* index of the article the rewrite loop is at
    rewritten_articles,  \* main: rewritten_articles
    data_json,           \* content of data.json
    index_html,          \* content of index.html
    hpc,                 \* position of scrape_articles
    max_articles,        \* scrape_articles: max_articles
    articles,            \* scrape_articles: articles
    seen_urls,           \* scrape_articles: seen_urls
    page,                \* scrape_articles: page
    start,               \* scrape_articles: start, the offset in search_url
    pending,             \* containers of result_containers not yet visited
    visited,             \* history: <<container>> of the latest for iteration,
                         \* <<None, "raised">> when its parsing raised
    met,                 \* history: the hrefs of the containers with a URL that
                         \* the for loop went through in this harvest, in order
                         \* (kept by SpecOrder only)
    offsets,             \* history: the start offsets requested in this harvest
    page_base,           \* history: articles when the current page was requested
    stop,                \* history: why the while loop of the harvest ended
    attempt,             \* make_request: attempt
    requests_made,       \* history: requests.get calls of this make_request
    slept,               \* history: sleeps of the latest loop iteration
    response             \* result of make_request: None or "Response"

vars == <<config, mpc, exit_code, ki, all_articles_raw, ai, rewritten_articles,
          data_json, index_html, hpc, max_articles, articles, seen_urls, page,
          start, pending, visited, met, offsets, page_base, stop, attempt, requests_made, slept, response>>

mainVars == <<config, mpc, exit_code, ki, all_articles_raw, ai,
              rewritten_articles, data_json, index_html>>
harvestVars == <<max_articles, articles, seen_urls, page, start, pending,
                 visited, met, offsets, page_base, stop>>
fetchVars == <<attempt, requests_made, slept, response>>

Init ==
    /\ config \in Configs
    /\ mpc = "start"
    /\ exit_code = None
    /\ ki = 1
    /\ all_articles_raw = <<>>
    /\ ai = 1
    /\ rewritten_articles = <<>>
    /\ data_json = Stale
    /\ index_html = Stale
    /\ hpc = "idle"
    /\ max_articles = 0
    /\ articles = <<>>
    /\ seen_urls = {}
    /\ page = 0
    /\ start = 0
    /\ pending = 0
    /\ visited = <<>>
    /\ met = <<>>
    /\ offsets = <<>>
    /\ page_base = <<>>
    /\ stop = None
    /\ attempt = 0
    /\ requests_made = 0
    /\ slept = <<>>
    /\ response = None

\* ------------------------------------------------------------ make_request
RECURSIVE Pow(_, _)
Pow(b, e) == IF e = 0 THEN 1 ELSE b * Pow(b, e - 1)

\* A rate-limit pause that grows by a constant step instead of doubling.
Backoff_Linear(n) == [kind |-> "backoff", dur |-> n + 1]

Backoff(n) == [kind |-> "backoff", dur |-> Pow(BackoffBase, n)]
Jitter(j) == [kind |-> "jitter", dur |-> j]

\* The sleeps of one loop iteration that got outcome o (lines 56-67).
Sleeps(o, n, j) ==
    IF o = "200" THEN <<>>
    ELSE IF o = "429" THEN <<Backoff(n), Jitter(j)>>
    ELSE <<Jitter(j)>>

\* A loop bound that lets one attempt too many through.
MoreAttempts_OneMore(n) == n <= max_retries

\* Whether the for loop of make_request has an iteration left.
MoreAttempts(n) == n < max_retries

\* One iteration of `for attempt in range(max_retries)`: a requests.get whose
\* outcome is o; 200 returns the response at once, anything else sleeps and
\* moves on.  attempt is the value the loop variable has in this iteration.
Attempt(o, j) ==
    /\ hpc = "request"
    /\ MoreAttempts(attempt)
    /\ requests_made' = requests_made + 1
    /\ slept' = Sleeps(o, attempt, j)
    /\ IF o = "200"
       THEN /\ response' = "Response"
            /\ hpc' = "response"
            /\ attempt' = attempt
       ELSE /\ response' = None
            /\ hpc' = "request"
            /\ attempt' = attempt + 1
    /\ UNCHANGED <<mainVars, harvestVars>>

\* The loop ran out: log the failure and return None (lines 69-70).
GiveUp ==
    /\ hpc = "request"
    /\ ~MoreAttempts(attempt)
    /\ response' = None
    /\ hpc' = "response"
    /\ UNCHANGED <<mainVars, harvestVars, attempt, requests_made, slept>>

\* --------------------------------------------------------- scrape_articles
parse_article_date(date_str) == IF date_str = "" THEN None ELSE date_str

\* element.get_text() if element else ''
TextOf(element) == IF element = None THEN "" ELSE element

\* A skip test that also drops a container without a title element.
Skipped_NoTitle(container, seen) ==
    \/ ~container.a
    \/ container.href = None
    \/ container.href = ""
    \/ container.href \in seen
    \/ container.heading = None

\* A skip test that lets an empty href through.
Skipped_EmptyHref(container, seen) ==
    \/ ~container.a
    \/ container.href = None
    \/ container.href \in seen

\* Lines 107-111: the container is passed over without a record.
Skipped(container, seen) ==
    \/ ~container.a
    \/ container.href = None
    \/ container.href = ""
    \/ container.href \in seen

\* Lines 113-129: article_data.
ArticleData(container, keyword) ==
    [keyword |-> keyword,
     url |-> container.href,
     title |-> TextOf(container.heading),
     date_published |-> parse_article_date(TextOf(container.OSrXXb)),
     snippet |-> TextOf(container.n0jPhd)]

\* A list that takes the new record at its front.
Appended_Front(list, article) == <<article>> \o list

\* Lines 131-132 on the accumulated list and on the seen-set.
Appended(list, article) == Append(list, article)

\* A seen-set that is never added to.
Seen_Forgets(seen, url) == seen

Seen(seen, url) == seen \cup {url}

\* A loop test that is off by one.
BelowTarget_OffByOne(list, target) == Len(list) <= target

\* The while condition of line 84, also the negation of the break of line 103.
BelowTarget(list, target) == Len(list) < target

Keyword == config.keywords[ki]

\* Line 84 true: build search_url and call make_request (lines 85-89).
WhileFetch ==
    /\ hpc = "while"
    /\ BelowTarget(articles, max_articles)
    /\ page < MaxPages
    /\ start' = page * PageSize
    /\ offsets' = Append(offsets, start')
    /\ page_base' = articles
    /\ attempt' = 0
    /\ requests_made' = 0
    /\ slept' = <<>>
    /\ response' = None
    /\ hpc' = "request"
    /\ UNCHANGED <<mainVars, max_articles, articles, seen_urls, page, pending,
                   visited, met, stop>>

\* Line 84 false: the loop ends and the list is returned (lines 142-143).
WhileExit ==
    /\ hpc = "while"
    /\ ~BelowTarget(articles, max_articles)
    /\ stop' = "target"
    /\ hpc' = "return"
    /\ UNCHANGED <<mainVars, fetchVars, max_articles, articles, seen_urls, page,
                   start, pending, visited, met, offsets, page_base>>

\* What lines 91-100 do with the result of make_request when the page holds
\* n containers: break on no response, break on no container, else iterate.
AfterFetch(resp, n) ==
    IF resp = None THEN "fetch_failed"
    ELSE IF n = 0 THEN "no_containers"
    ELSE "for"

\* Lines 91-100.
HandleResponse(n) ==
    /\ hpc = "response"
    /\ LET next == AfterFetch(response, n) IN
       IF next = "for"
       THEN /\ pending' = n
            /\ hpc' = "for"
            /\ stop' = stop
       ELSE /\ pending' = 0
            /\ hpc' = "return"
            /\ stop' = next
    /\ attempt' = 0
    /\ requests_made' = 0
    /\ slept' = <<>>
    /\ response' = None
    /\ UNCHANGED <<mainVars, max_articles, articles, seen_urls, page, start,
                   visited, met, offsets, page_base>>

\* One iteration of `for container in result_containers` past the break of
\* line 103 (lines 106-137).  history says whether the specification keeps
\* the list met of the hrefs gone through.
ForBody(container, history) ==
    /\ hpc = "for"
    /\ pending > 0
    /\ BelowTarget(articles, max_articles)
    /\ pending' = pending - 1
    /\ visited' = <<container>>
    /\ met' = IF history /\ container.a /\ container.href \notin {None, ""}
              THEN Append(met, container.href)
              ELSE met
    /\ IF Skipped(container, seen_urls)
       THEN UNCHANGED <<articles, seen_urls>>
       ELSE /\ articles' = Appended(articles, ArticleData(container, Keyword))
            /\ seen_urls' = Seen(seen_urls, container.href)
    /\ UNCHANGED <<mainVars, fetchVars, hpc, max_articles, page, start, offsets, page_base, stop>>

\* An exception handler that gives up the rest of the page.
Remaining_None(n) == 0

\* Lines 135-137: the except clause logs and continues with the containers
\* that are left after the one that raised.
Remaining(n) == n - 1

\* One iteration of the for loop in which a statement of lines 107-120 (a
\* find, get or get_text on a malformed fragment) raises before article_data
\* is built; the except clause of lines 135-137 catches it.  Nothing of the
\* container has reached the state by then, so it is not an input here.
ForRaise ==
    /\ hpc = "for"
    /\ pending > 0
    /\ BelowTarget(articles, max_articles)
    /\ pending' = Remaining(pending)
    /\ visited' = <<None, "raised">>
    /\ UNCHANGED <<articles, seen_urls, met, offsets>>
    /\ UNCHANGED <<mainVars, fetchVars, hpc, max_articles, page, start, page_base, stop>>

\* A page loop that asks for the same page again.
EndPage_SamePage ==
    /\ hpc = "for"
    /\ (pending = 0 \/ ~BelowTarget(articles, max_articles))
    /\ pending' = 0
    /\ visited' = <<>>
    /\ page' = page
    /\ hpc' = "while"
    /\ UNCHANGED <<mainVars, fetchVars, max_articles, articles, seen_urls, start,
                   met, offsets, page_base, stop>>

\* The for loop ends, by exhaustion or by the break of line 103; then
\* page += 1 and the pause between pages (lines 139-140).
EndPage ==
    /\ hpc = "for"
    /\ (pending = 0 \/ ~BelowTarget(articles, max_articles))
    /\ pending' = 0
    /\ visited' = <<>>
    /\ page' = page + 1
    /\ hpc' = "while"
    /\ UNCHANGED <<mainVars, fetchVars, max_articles, articles, seen_urls, start,
                   met, offsets, page_base, stop>>

\* ----------------------------------------------------- rewrite_with_gemini
\* Lines 176-183: the article with response.text stored in it, or None when
\* model.generate_content raises.
rewrite_with_gemini(article, outcome) ==
    IF outcome = "text"
    THEN [keyword |-> article.keyword, url |-> article.url, title |-> article.title,
          date_published |-> article.date_published, snippet |-> article.snippet,
          rewritten_content |-> "rewritten"]
    ELSE None

\* Lines 253-254: what the rewrite loop keeps of one rewrite result.
Kept(list, article, outcome) ==
    IF outcome = "text"
    THEN Append(list, rewrite_with_gemini(article, outcome))
    ELSE list

\* ------------------------------------------------------------ save_to_json
\* data.json after save_to_json(list, filename) when the file system answers
\* io: nothing is opened for an empty list; open(filename, 'w') truncates the
\* file before json.dump writes it.
save_to_json(file, list, io) ==
    IF list = <<>> THEN file
    ELSE IF io = "ok" THEN [state |-> "written", articles |-> list]
    ELSE IF io = "open_raises" THEN file
    ELSE [state |-> "truncated", articles |-> <<>>]

\* ---------------------------------------------------- generate_static_site
\* index.html after generate_static_site(list, output_dir): nothing is done
\* for an empty list; any exception (template missing, render or write
\* error) is logged and swallowed.
generate_static_site(file, list, io) ==
    IF list = <<>> THEN file
    ELSE IF io = "ok" THEN [state |-> "written", articles |-> list]
    ELSE IF io = "write_raises" THEN [state |-> "truncated", articles |-> <<>>]
    ELSE file

\* -------------------------------------------------------------------- main
\* Startup checks that let a missing GEMINI_API_KEY through.
StartupFailure_NoKeyCheck(cfg) ==
    IF cfg.file # "ok" THEN "config"
    ELSE IF cfg.keywords = <<>> THEN "keywords"
    ELSE None

\* Which startup check of lines 229-241 ends the process, None when all pass.
StartupFailure(cfg) ==
    IF cfg.file # "ok" THEN "config"
    ELSE IF cfg.keywords = <<>> THEN "keywords"
    ELSE IF ~cfg.api_key THEN "api_key"
    ELSE None

\* Lines 229-243.
Startup ==
    /\ mpc = "start"
    /\ IF StartupFailure(config) # None
       THEN /\ mpc' = "exit"
            /\ exit_code' = "1"
       ELSE /\ mpc' = "harvest"
            /\ exit_code' = exit_code
    /\ UNCHANGED <<config, ki, all_articles_raw, ai, rewritten_articles, data_json,
                   index_html, hpc, harvestVars, fetchVars>>

\* Line 247: the call of scrape_articles for the next keyword (lines 78-80).
CallScrape ==
    /\ mpc = "harvest"
    /\ hpc = "idle"
    /\ ki <= Len(config.keywords)
    /\ max_articles' = config.max_articles_per_keyword
    /\ articles' = <<>>
    /\ seen_urls' = {}
    /\ page' = 0
    /\ start' = 0
    /\ pending' = 0
    /\ visited' = <<>>
    /\ met' = <<>>
    /\ offsets' = <<>>
    /\ page_base' = <<>>
    /\ stop' = None
    /\ hpc' = "while"
    /\ UNCHANGED <<mainVars, fetchVars>>

\* An aggregate that drops what the harvest returned.
Extended_Drops(all, list) == all

\* An aggregate that puts the latest harvest in front.
Extended_Prepends(all, list) == list \o all

\* Line 248 on the aggregate.
Extended(all, list) == all \o list

\* scrape_articles returns; line 248, and the for loop moves on.
ReturnScrape ==
    /\ mpc = "harvest"
    /\ hpc = "return"
    /\ all_articles_raw' = Extended(all_articles_raw, articles)
    /\ ki' = ki + 1
    /\ hpc' = "idle"
    /\ articles' = <<>>
    /\ seen_urls' = {}
    /\ page' = 0
    /\ start' = 0
    /\ met' = <<>>
    /\ offsets' = <<>>
    /\ page_base' = <<>>
    /\ stop' = None
    /\ UNCHANGED <<config, mpc, exit_code, ai, rewritten_articles, data_json,
                   index_html, max_articles, pending, visited, fetchVars>>

\* The keyword loop is over; the rewrite loop starts (lines 250-251).
HarvestDone ==
    /\ mpc = "harvest"
    /\ hpc = "idle"
    /\ ki > Len(config.keywords)
    /\ mpc' = "rewrite"
    /\ ai' = 1
    /\ UNCHANGED <<config, exit_code, ki, all_articles_raw, rewritten_articles,
                   data_json, index_html, hpc, harvestVars, fetchVars>>

\* One iteration of the rewrite loop (lines 251-255).  rewrite_with_gemini
\* stores the text in the dict it was given, which all_articles_raw holds too.
Rewrite(outcome) ==
    /\ mpc = "rewrite"
    /\ ai <= Len(all_articles_raw)
    /\ rewritten_articles' = Kept(rewritten_articles, all_articles_raw[ai], outcome)
    /\ all_articles_raw' =
           IF outcome = "text"
           THEN [all_articles_raw EXCEPT ![ai] = rewrite_with_gemini(@, outcome)]
           ELSE all_articles_raw
    /\ ai' = ai + 1
    /\ UNCHANGED <<config, mpc, exit_code, ki, data_json, index_html, hpc,
                   harvestVars, fetchVars>>

\* Lines 257-258.
Save(io) ==
    /\ mpc = "rewrite"
    /\ ai > Len(all_articles_raw)
    /\ data_json' = save_to_json(data_json, rewritten_articles, io)
    /\ mpc' = "render"
    /\ UNCHANGED <<config, exit_code, ki, all_articles_raw, ai, rewritten_articles,
                   index_html, hpc, harvestVars, fetchVars>>

\* A render stage whose failure ends the process and takes the snapshot of
\* this run with it.
Render_Aborts(io) ==
    /\ mpc = "render"
    /\ index_html' = generate_static_site(index_html, rewritten_articles, io)
    /\ IF io = "ok" \/ rewritten_articles = <<>>
       THEN mpc' = "done" /\ exit_code' = "0" /\ data_json' = data_json
       ELSE mpc' = "exit" /\ exit_code' = "1" /\ data_json' = Stale
    /\ UNCHANGED <<config, ki, all_articles_raw, ai, rewritten_articles,
                   hpc, harvestVars, fetchVars>>

\* Lines 260-262.
Render(io) ==
    /\ mpc = "render"
    /\ index_html' = generate_static_site(index_html, rewritten_articles, io)
    /\ mpc' = "done"
    /\ exit_code' = "0"
    /\ UNCHANGED <<config, ki, all_articles_raw, ai, rewritten_articles, data_json,
                   hpc, harvestVars, fetchVars>>

Next ==
    \/ Startup
    \/ CallScrape
    \/ WhileFetch
    \/ WhileExit
    \/ \E o \in Outcomes, j \in JitterLow..JitterHigh : Attempt(o, j)
    \/ GiveUp
    \/ \E n \in 0..MaxContainers : HandleResponse(n)
    \/ \E container \in PlainContainers : ForBody(container, FALSE)
    \/ ForRaise
    \/ EndPage
    \/ ReturnScrape
    \/ HarvestDone
    \/ \E outcome \in {"text", "raises"} : Rewrite(outcome)
    \/ \E io \in {"ok", "open_raises", "dump_raises"} : Save(io)
    \/ \E io \in {"ok", "template_raises", "write_raises"} : Render(io)

\* The pipeline: main from its first line, over every configuration.
Spec == Init /\ [][Next]_vars

\* One harvest: main past its startup checks with a single keyword, up to the
\* return of scrape_articles, over every container markup.
InitHarvest ==
    /\ config \in HarvestConfigs
    /\ mpc = "harvest"
    /\ exit_code = None
    /\ ki = 1
    /\ all_articles_raw = <<>>
    /\ ai = 1
    /\ rewritten_articles = <<>>
    /\ data_json = Stale
    /\ index_html = Stale
    /\ hpc = "idle"
    /\ max_articles = 0
    /\ articles = <<>>
    /\ seen_urls = {}
    /\ page = 0
    /\ start = 0
    /\ pending = 0
    /\ visited = <<>>
    /\ met = <<>>
    /\ offsets = <<>>
    /\ page_base = <<>>
    /\ stop = None
    /\ attempt = 0
    /\ requests_made = 0
    /\ slept = <<>>
    /\ response = None

NextHarvest ==
    \/ CallScrape
    \/ WhileFetch
    \/ WhileExit
    \/ \E o \in Outcomes, j \in JitterLow..JitterHigh : Attempt(o, j)
    \/ GiveUp
    \/ \E n \in 0..MaxContainers : HandleResponse(n)
    \/ \E container \in Containers : ForBody(container, FALSE)
    \/ ForRaise
    \/ EndPage

SpecHarvest == InitHarvest /\ [][NextHarvest]_vars

\* One harvest as above, keeping in met the hrefs the for loop went through.
NextOrder ==
    \/ CallScrape
    \/ WhileFetch
    \/ WhileExit
    \/ \E o \in Outcomes, j \in JitterLow..JitterHigh : Attempt(o, j)
    \/ GiveUp
    \/ \E n \in 0..MaxContainers : HandleResponse(n)
    \/ \E container \in Containers : ForBody(container, TRUE)
    \/ ForRaise
    \/ EndPage

SpecOrder == InitHarvest /\ [][NextOrder]_vars

\* ================================================================== claims
LastArticle == articles[Len(articles)]

\* The container has a link with a non-empty href.
UrlOf(c) == c.a /\ c.href \in Urls

\* The step is one iteration of the for loop over the containers that ran
\* without an exception; visited' holds the container it visited.
ForStep == hpc = "for" /\ pending' = pending - 1 /\ Len(visited') = 1

\* The step is one iteration of the for loop in which parsing raised.
RaiseStep == hpc = "for" /\ Len(visited') = 2

\* C1: in every state of a harvest, intermediate or final, no two records of
\* the accumulated list share a url.
C1_NoDuplicateUrls ==
    \A i, j \in 1..Len(articles) :
        i # j => articles[i].url # articles[j].url

\* A later page served a container whose URL was already recorded, and the
\* page added nothing.
C1_Witness ==
    /\ hpc = "for"
    /\ page >= 1
    /\ Len(articles) >= 1
    /\ articles = page_base
    /\ Len(visited) = 1
    /\ UrlOf(visited[1])
    /\ visited[1].href = articles[1].url

\* C2: for a target count >= 0 the accumulated list never holds more records
\* than the target, in any state of the harvest, the returned one included.
C2_AtMostTarget ==
    max_articles >= 0 => Len(articles) <= max_articles

\* The target is reached while the page still has containers to visit.
C2_Witness ==
    /\ hpc = "for"
    /\ pending > 0
    /\ max_articles > 0
    /\ Len(articles) = max_articles

\* C3: a make_request whose attempts all fail issues one request per failed
\* attempt, never more than max_retries, and when it returns without a
\* response it has issued exactly max_retries (3) requests.
C3_ExactlyMaxRetries ==
    /\ requests_made <= max_retries
    /\ hpc = "request" => requests_made = attempt
    /\ (hpc = "response" /\ response = None) => requests_made = max_retries

\* make_request has returned None after three failed attempts.
C3_Witness ==
    /\ hpc = "response"
    /\ response = None
    /\ requests_made = 3
    /\ slept # <<>>

\* C4: the harvest loop stops as soon as a fetched page has added no record:
\* control is never back at the loop test, below the target, after a page
\* that left the accumulated list as it was, with another fetch to come.
C4_StopsWhenPageAddsNothing ==
    (hpc = "while" /\ page >= 1 /\ articles = page_base)
        => ~BelowTarget(articles, max_articles)

\* C5: once the rewrite loop is over, every harvested record is in the
\* output, whether its rewrite succeeded or failed.
C5_FailedRewriteRetained ==
    mpc \in {"render", "done"} =>
        \A i \in 1..Len(all_articles_raw) :
            \E j \in 1..Len(rewritten_articles) :
                /\ rewritten_articles[j].url = all_articles_raw[i].url
                /\ rewritten_articles[j].keyword = all_articles_raw[i].keyword

\* C6: a run that passed the startup checks and ended with an empty
\* aggregate has overwritten the snapshot and produced a document: neither
\* file is the one an earlier run left.
C6_EmptyAggregateStillWritten ==
    (mpc = "done" /\ rewritten_articles = <<>>) =>
        (data_json # Stale /\ index_html # Stale)

\* C7: when make_request gives up on a page, scrape_articles returns the
\* records it had when it requested that page, and main appends them to the
\* aggregate and moves to the next keyword, still running.
C7_FetchFailureKeepsPartial ==
    [][/\ (hpc = "response" /\ response = None) =>
            (hpc' = "return" /\ stop' = "fetch_failed" /\ articles' = page_base)
       /\ (hpc = "return" /\ stop = "fetch_failed" /\ hpc' = "idle") =>
            /\ all_articles_raw' = all_articles_raw \o page_base
            /\ ki' = ki + 1
            /\ mpc' = "harvest"
            /\ exit_code' = None]_vars

\* A fetch failed on a later page of a keyword that is not the last one,
\* with records accumulated from the pages before.
C7_Witness ==
    /\ mpc = "harvest"
    /\ hpc = "return"
    /\ stop = "fetch_failed"
    /\ page >= 1
    /\ articles # <<>>
    /\ ki < Len(config.keywords)

\* C8: a visited container with a usable, unseen URL whose title or snippet
\* element is missing adds exactly one record, with the missing field '' and
\* the field that is there kept.
C8_MissingFieldYieldsRecord ==
    [][LET c == visited'[1] IN
        (/\ ForStep
         /\ UrlOf(c)
         /\ c.href \notin seen_urls
         /\ (c.heading = None \/ c.n0jPhd = None))
        => /\ Len(articles') = Len(articles) + 1
           /\ SubSeq(articles', 1, Len(articles)) = articles
           /\ articles'[Len(articles')].url = c.href
           /\ articles'[Len(articles')].title =
                  (IF c.heading = None THEN "" ELSE c.heading)
           /\ articles'[Len(articles')].snippet =
                  (IF c.n0jPhd = None THEN "" ELSE c.n0jPhd)]_vars

\* The latest container had no title element but a snippet, and its record
\* was appended with an empty title.
C8_Witness ==
    /\ Len(visited) = 1
    /\ UrlOf(visited[1])
    /\ visited[1].heading = None
    /\ visited[1].n0jPhd # None
    /\ articles # page_base
    /\ LastArticle.url = visited[1].href
    /\ LastArticle.title = ""
    /\ LastArticle.snippet = "snippet"

\* C9: in every record of the accumulated list the snippet and the date hint
\* are strings, never None.
C9_SecondaryFieldsAreStrings ==
    \A i \in 1..Len(articles) :
        /\ articles[i].snippet # None
        /\ articles[i].date_published # None

\* C10: a visited container without a link, or whose link has no href or an
\* empty one, leaves the accumulated list and the seen-set as they were; a
\* container with an unseen URL always adds a record, whatever else it lacks.
C10_NoUrlNoRecord ==
    [][LET c == visited'[1] IN
        ForStep =>
            IF ~c.a \/ c.href = None \/ c.href = ""
            THEN UNCHANGED <<articles, seen_urls>>
            ELSE c.href \notin seen_urls =>
                    /\ Len(articles') = Len(articles) + 1
                    /\ seen_urls' = seen_urls \cup {c.href}]_vars

\* The latest container had a link with an empty href and was passed over
\* with a record already accumulated.
C10_Witness ==
    /\ Len(visited) = 1
    /\ visited[1].a
    /\ visited[1].href = ""
    /\ Len(articles) = 1
    /\ seen_urls = {articles[1].url}

\* The keywords of the configuration no record of the aggregate carries:
\* the topics whose harvest returned nothing.
EmptyTopics ==
    {config.keywords[k] : k \in 1..Len(config.keywords)}
        \ {all_articles_raw[i].keyword : i \in 1..Len(all_articles_raw)}

\* C11: in a finished run where the harvest of some topic returned nothing,
\* every record harvested for the other topics is in the final output.
C11_EmptyTopicOthersReachOutput ==
    (mpc = "done" /\ EmptyTopics # {}) =>
        \A i \in 1..Len(all_articles_raw) :
            \E j \in 1..Len(rewritten_articles) :
                /\ rewritten_articles[j].keyword = all_articles_raw[i].keyword
                /\ rewritten_articles[j].url = all_articles_raw[i].url

\* C12: with no keyword configured or no credential in the environment the
\* process is at its start or has exited with status 1, and nothing was
\* fetched, rewritten or written; with both there the process never exits
\* with a nonzero status, whatever fetch, parse, rewrite or render fails.
C12_OnlyStartupStops ==
    IF config.keywords = <<>> \/ ~config.api_key
    THEN /\ mpc \in {"start", "exit"}
         /\ mpc = "exit" => exit_code = "1"
         /\ mpc = "start" => exit_code = None
         /\ hpc = "idle"
         /\ requests_made = 0
         /\ all_articles_raw = <<>>
         /\ ai = 1
         /\ rewritten_articles = <<>>
         /\ data_json = Stale
         /\ index_html = Stale
    ELSE /\ mpc # "exit"
         /\ exit_code \in {None, "0"}
         /\ exit_code = "0" <=> mpc = "done"

\* The process has exited with status 1 on a configuration that has keywords
\* but no credential.
C12_Witness ==
    /\ mpc = "exit"
    /\ exit_code = "1"
    /\ config.keywords # <<>>
    /\ ~config.api_key

\* C13: an iteration whose parsing raises leaves the accumulated list and the
\* seen-set as they were, takes only that container off the page, and leaves
\* the for loop running for the containers after it.
C13_RaiseSkipsOneContainer ==
    [][RaiseStep =>
        /\ articles' = articles
        /\ seen_urls' = seen_urls
        /\ pending' = pending - 1
        /\ hpc' = "for"
        /\ page' = page
        /\ stop' = stop]_vars

\* Parsing raised on a container with a record already accumulated and a
\* container still to come on the same page.
C13_Witness ==
    /\ hpc = "for"
    /\ Len(visited) = 2
    /\ pending > 0
    /\ Len(articles) = 1
    /\ seen_urls = {articles[1].url}
    /\ BelowTarget(articles, max_articles)

\* The latest attempt of the running make_request was answered with 429: its
\* iteration slept a rate-limit pause.  attempt then holds the number 1..3 of
\* that attempt.
RateLimited(sl) == sl # <<>> /\ sl[1].kind = "backoff"

\* C14 as stated: after attempt k (1..max_retries) was answered with 429 the
\* rate-limit pause slept is 2^k.
C14_BackoffIsBaseToAttemptNumber ==
    (hpc = "request" /\ RateLimited(slept)) => slept[1].dur = Pow(2, attempt)

\* C14 as amended: after attempt k (1..max_retries) was answered with 429 the
\* rate-limit pause slept is 2^(k-1), that is 1, 2, 4; and when the attempt
\* before it was rate limited too, the pause is strictly longer than that one.
C14_BackoffIsBaseToAttemptIndex ==
    [][(hpc = "request" /\ attempt' = attempt + 1 /\ RateLimited(slept')) =>
        /\ slept'[1].dur = Pow(2, attempt' - 1)
        /\ slept'[1].dur \in {1, 2, 4}
        /\ RateLimited(slept) => slept'[1].dur > slept[1].dur]_vars

\* The third attempt was answered with 429 and the pause slept was 4.
C14_Witness ==
    /\ hpc = "request"
    /\ attempt = 3
    /\ RateLimited(slept)
    /\ slept[1].dur = 4

\* C15: inside make_request a sleep is followed by another attempt (the
\* randomized delay sits between two attempts and nowhere else), its
\* duration is within 1..3, and a successful attempt returns with no sleep.
C15_JitterOnlyBetweenAttempts ==
    /\ (hpc = "request" /\ slept # <<>>) => attempt < max_retries
    /\ \A i \in 1..Len(slept) :
           slept[i].kind = "jitter" => slept[i].dur \in 1..3
    /\ (hpc = "response" /\ response # None) => slept = <<>>

\* The place of a keyword in the configured list.
KwIndex(k) == CHOOSE n \in 1..Len(config.keywords) : config.keywords[n] = k

\* The records of the list come in the order of the configured keywords.
InTopicOrder(list) ==
    \A i, j \in 1..Len(list) :
        i < j => KwIndex(list[i].keyword) <= KwIndex(list[j].keyword)

\* The record carries the text of a successful rewrite.
HasRewritten(r) == "rewritten_content" \in DOMAIN r

\* C16 as stated: when the harvest of a later topic is running, every record
\* harvested for the topics before it has been through the rewrite loop.
C16_RewriteBeforeNextHarvest ==
    (mpc = "harvest" /\ hpc # "idle" /\ ki >= 2) => ai > Len(all_articles_raw)

\* C16 as amended: the topics are harvested one at a time in configured
\* order, each harvest appended to the aggregate as returned; no record is
\* rewritten before the last harvest has returned and no harvest runs after;
\* the aggregate and the output keep topics in configured order, and the
\* output is the rewritten records of the aggregate in aggregate order.
C16_HarvestAllThenRewrite ==
    /\ [](/\ mpc \in {"start", "harvest"} =>
                (ai = 1 /\ rewritten_articles = <<>>)
          /\ mpc \in {"rewrite", "render", "done"} =>
                (hpc = "idle" /\ ki = Len(config.keywords) + 1)
          /\ \A i \in 1..Len(all_articles_raw) :
                KwIndex(all_articles_raw[i].keyword) < ki
          /\ InTopicOrder(all_articles_raw)
          /\ InTopicOrder(rewritten_articles)
          /\ rewritten_articles =
                SelectSeq(SubSeq(all_articles_raw, 1, ai - 1), HasRewritten))
    /\ [][(hpc = "return" /\ hpc' = "idle") =>
            /\ all_articles_raw' = all_articles_raw \o articles
            /\ \A i \in 1..Len(articles) : articles[i].keyword = config.keywords[ki]
            /\ ki' = ki + 1]_vars

\* A finished run whose output holds a record of the first topic followed by
\* one of the second, with a third harvested record dropped in between or
\* after.
C16_Witness ==
    /\ mpc = "done"
    /\ Len(all_articles_raw) >= 3
    /\ Len(rewritten_articles) = 2
    /\ rewritten_articles[1].keyword = "k1"
    /\ rewritten_articles[2].keyword = "k2"

\* C17: data.json changes only in the step that leaves the rewrite loop for
\* the render stage, with index.html not yet touched; the render stage is one
\* step that leaves data.json as it is and ends the run with status 0,
\* whether generate_static_site wrote the document or failed.
C17_RenderAfterSnapshotAbsorbed ==
    [][/\ data_json' # data_json =>
            (mpc = "rewrite" /\ mpc' = "render" /\ index_html = Stale
             /\ index_html' = index_html)
       /\ index_html' # index_html => mpc = "render"
       /\ mpc = "render" =>
            (data_json' = data_json /\ mpc' = "done" /\ exit_code' = "0")
       /\ mpc = "done" => mpc' = "done"]_vars

\* A finished run whose snapshot was written and whose render failed: the
\* output is not empty and index.html is still the stale one.
C17_Witness ==
    /\ mpc = "done"
    /\ exit_code = "0"
    /\ rewritten_articles # <<>>
    /\ data_json = [state |-> "written", articles |-> rewritten_articles]
    /\ index_html = Stale

\* The first occurrence of every element of a sequence, in order.
RECURSIVE FirstOccurrences(_)
FirstOccurrences(seq) ==
    IF seq = <<>> THEN <<>>
    ELSE LET front == FirstOccurrences(SubSeq(seq, 1, Len(seq) - 1))
             last == seq[Len(seq)]
         IN IF \E i \in 1..Len(front) : front[i] = last
            THEN front
            ELSE Append(front, last)

\* The first n elements of a sequence (all of it when it is shorter).
Take(seq, n) ==
    IF n <= 0 THEN <<>>
    ELSE IF n >= Len(seq) THEN seq
    ELSE SubSeq(seq, 1, n)

\* C18 (under SpecOrder): in every state of a harvest the urls of the accumulated list are the
\* first occurrences of the URLs met so far, in the order met, cut to the
\* target, and every record carries the harvested keyword; a record enters
\* the list at its end, built from the container of that iteration.
C18_FirstOccurrencesInOrder ==
    /\ [](hpc # "idle" =>
            /\ [i \in 1..Len(articles) |-> articles[i].url]
                   = Take(FirstOccurrences(met), max_articles)
            /\ \A i \in 1..Len(articles) :
                   articles[i].keyword = config.keywords[ki])
    /\ [][(ForStep /\ articles' # articles) =>
            /\ Len(articles') = Len(articles) + 1
            /\ SubSeq(articles', 1, Len(articles)) = articles
            /\ articles'[Len(articles')].url = visited'[1].href
            /\ (articles'[Len(articles')].title = "")
                   = (visited'[1].heading = None)
            /\ (articles'[Len(articles')].snippet = "")
                   = (visited'[1].n0jPhd = None)]_vars

\* Target 2, three candidates of which the first two share a URL: the harvest
\* has returned the record of the first followed by the record of the third.
C18_Witness ==
    /\ hpc = "return"
    /\ max_articles = 2
    /\ met = <<"u1", "u1", "u2">>
    /\ Len(articles) = 2
    /\ articles[1].url = "u1"
    /\ articles[2].url = "u2"
    /\ articles[1].keyword = "k1"
    /\ articles[2].keyword = "k1"

\* C19: a page is requested only while the list is strictly shorter than the
\* target, so none is requested once the target is reached and none at all
\* for a target of 0 or less, whose harvest returns the empty list; the
\* offsets requested in one harvest are 0, 10, 20, ... in that order, each
\* strictly above all the earlier ones.
C19_FetchOnlyBelowTarget ==
    /\ [](/\ \A i \in 1..Len(offsets) : offsets[i] = (i - 1) * 10
          /\ \A i, j \in 1..Len(offsets) : i < j => offsets[i] < offsets[j]
          /\ (hpc # "idle" /\ max_articles <= 0) =>
                 (offsets = <<>> /\ articles = <<>> /\ hpc \in {"while", "return"}))
    /\ [][(offsets' # offsets /\ offsets' # <<>>) =>
            /\ Len(articles) < max_articles
            /\ offsets' = Append(offsets, start')
            /\ \A i \in 1..Len(offsets) : offsets[i] < start']_vars

\* A third page is being requested, after two pages that left the list below
\* the target.
C19_Witness ==
    /\ hpc = "request"
    /\ offsets = <<0, 10, 20>>
    /\ start = 20
    /\ Len(articles) < max_articles

====
